---- MODULE Spec2Model ----
(***************************************************************************)
(* Model of CPU_Thermal_DVFS.py: a four-node lumped RC thermal network     *)
(* integrated with explicit Euler steps, run once free-running (fixed      *)
(* V/F) and once under the hysteretic DVFS rule.                           *)
(*                                                                         *)
(* Numbers.  The program computes in IEEE doubles; the model computes in   *)
(* fixed point, rounding every quotient to the nearest unit:               *)
(*   temperatures          micro-degrees C        (25.0 C  = 25000000)     *)
(*   heat flows q1,q2,q4   micro-watts                                     *)
(*   power, pleak_nom      milli-watts            (0.1 W   = 100)          *)
(*   cdyn_trace samples    milli-watts per GHz                             *)
(*   frequencies           MHz                    (2.0 GHz = 2000)         *)
(*   voltages              milli-volts            (0.75 V  = 750)          *)
(*   voltage ratio         per mille              (1.0     = 1000)         *)
(*   dt                    units of 0.01 s        (0.01 s  = 1)            *)
(*   capacitances          units of 0.01 J/C      (0.01    = 1)            *)
(*   resistances           C/W                                             *)
(* `dt / C * x' of the source is evaluated as (dt * x) / C so that the     *)
(* quotient is rounded once.                                               *)
(***************************************************************************)
EXTENDS Integers, Sequences, FiniteSets, TLC

\* ------------------------------------------------------------------ bounds

\* len(time): the number of grid points (the source's grid has 1000).
NumSteps == 16

\* The workload traces explored are piecewise constant with at most this
\* many phases.
MaxPhases == 3

\* ------------------------------------------------------- module constants

Milli == 1000

dt == 1

\* 10 s in units of 0.01 s; the source's grid has duration / dt points.
duration == 1000

R1 == 100
C_cpu == 1
R2 == 300
C_board == 300
R3 == 60
C_amb == 1000000
R4 == 30
C_pkg == 500
R5 == 30

T_ambient == 25000000

v_nom == 750
f_nom == 2000
pleak_nom == 100

\* The DVFS thresholds and the catalog as the source sets them.
SourceConfig ==
    [ dvfs_temp_limit |-> 85000000,
      dvfs_hysteresis |-> 80000000,
      voltages        |-> << 750, 700, 650, 600, 550 >> ]

\* Activity levels a workload phase may take (mW/GHz).  The source draws
\* samples from [0.1, 1.0] W/GHz; the interface admits any non-negative
\* sample, and the high level is what drives the core over the limit within
\* NumSteps steps.
CdynLevels == { 0, 500, 30000 }

\* ------------------------------------------------------------------ state

VARIABLES
    cdyn_trace,        \* module global: the workload trace
    dvfs_temp_limit,   \* module global
    dvfs_hysteresis,   \* module global
    voltages,          \* module global: the operating-point catalog
    pc,                \* [free, dvfs]: position of each function's activation
    free,              \* locals of simulate_free_running
    dvfs,              \* locals of simulate_dvfs_strict
    T_free,            \* module global: result of simulate_free_running
    T_dvfs,            \* module globals: results of simulate_dvfs_strict
    freq_dvfs,
    volt_dvfs,
    runs,              \* how many times the two functions have been started
    first              \* the results of the first run, once it is repeated

vars == << cdyn_trace, dvfs_temp_limit, dvfs_hysteresis, voltages, pc, free,
           dvfs, T_free, T_dvfs, freq_dvfs, volt_dvfs, runs, first >>

globals == << cdyn_trace, dvfs_temp_limit, dvfs_hysteresis, voltages >>

\* ------------------------------------------------------------- arithmetic

\* n / d rounded to the nearest integer (d > 0).
Round(n, d) == (2 * n + d) \div (2 * d)

\* Product of two per-mille scaled quantities.
Mul(a, b) == Round(a * b, Milli)

\* numpy indexing arr[k] with a 0-based k: negative k counts from the end,
\* anything outside [-len, len-1] raises IndexError.
InRange(arr, k) == (-Len(arr)) <= k /\ k < Len(arr)

NpIndex(arr, k) == IF k >= 0 THEN arr[k + 1] ELSE arr[Len(arr) + k + 1]

\* --------------------------------------------------------- workload traces

RECURSIVE Const(_, _)
Const(l, n) == IF n = 0 THEN << >> ELSE << l >> \o Const(l, n - 1)

\* All traces of length n made of at most k constant phases.
RECURSIVE Traces(_, _)
Traces(k, n) ==
    IF k <= 1
    THEN { Const(l, n) : l \in CdynLevels }
    ELSE UNION { { p \o Const(l, n - m) : p \in Traces(k - 1, m), l \in CdynLevels }
                 : m \in 0..n }

\* ------------------------------------------------------------ power model

\* volt / v_nom
VoltRatio(volt) == Round(volt * Milli, v_nom)

\* The frequency left at nominal whatever the voltage.
FreqNominal(volt) == f_nom

\* freq = f_nom * (volt / v_nom)
Freq(volt) == Mul(f_nom, VoltRatio(volt))

\* The leakage term left out of the free-running power.
PowerFreeNoLeak(cdyn) == Mul(cdyn, f_nom)

\* simulate_free_running: pdyn = cdyn * f_nom; power_total = pdyn + pleak_nom
PowerFree(cdyn) == Mul(cdyn, f_nom) + pleak_nom

\* The voltage ratio taken to the first power instead of squared.
PowerDvfsLinear(cdyn, volt) ==
    Mul(Mul(cdyn, Freq(volt)), VoltRatio(volt)) + pleak_nom

\* simulate_dvfs_strict: pdyn = cdyn * freq * (volt / v_nom)**2
PowerDvfs(cdyn, volt) ==
    Mul(Mul(cdyn, Freq(volt)), Mul(VoltRatio(volt), VoltRatio(volt))) + pleak_nom

\* ---------------------------------------------------------- thermal update

Temps(s) == [ T_cpu |-> s.T_cpu, T_soc |-> s.T_soc,
              T_board |-> s.T_board, T_pkg |-> s.T_pkg ]

\* A mis-ordered update: the heat flow into the SoC node is re-read from the
\* core temperature that the same step has just written.
ThermalUpdateStale(T, power_total) ==
    LET q2 == Round(T.T_soc - T.T_board, R2)
        q4 == Round(T.T_soc - T.T_pkg, R4)
        a  == [ T EXCEPT !.T_cpu = @ + Round(dt * (power_total * Milli
                                       - Round(T.T_cpu - T.T_soc, R1)), C_cpu) ]
        b  == [ a EXCEPT !.T_soc = @ + Round(dt * (Round(a.T_cpu - a.T_soc, R1)
                                       - q2 - q4), C_board) ]
        c  == [ b EXCEPT !.T_pkg = @ + Round(dt * (q4 - Round(b.T_pkg - T_ambient, R5)), C_pkg) ]
    IN  [ c EXCEPT !.T_board = @ + Round(dt * (q2 - Round(c.T_board - T_ambient, R3)), C_amb) ]

\* The dissipated power left out of the core's heat balance.
ThermalUpdateNoPower(T, power_total) ==
    LET q1 == Round(T.T_cpu - T.T_soc, R1)
        q2 == Round(T.T_soc - T.T_board, R2)
        q4 == Round(T.T_soc - T.T_pkg, R4)
        a  == [ T EXCEPT !.T_cpu = @ + Round(dt * (0 - q1), C_cpu) ]
        b  == [ a EXCEPT !.T_soc = @ + Round(dt * (q1 - q2 - q4), C_board) ]
        c  == [ b EXCEPT !.T_pkg = @ + Round(dt * (q4 - Round(b.T_pkg - T_ambient, R5)), C_pkg) ]
    IN  [ c EXCEPT !.T_board = @ + Round(dt * (q2 - Round(c.T_board - T_ambient, R3)), C_amb) ]

\* The heat flow from the core entering the SoC node's balance with the
\* wrong sign.
ThermalUpdateReversedFlow(T, power_total) ==
    LET q1 == Round(T.T_cpu - T.T_soc, R1)
        q2 == Round(T.T_soc - T.T_board, R2)
        q4 == Round(T.T_soc - T.T_pkg, R4)
        a  == [ T EXCEPT !.T_cpu = @ + Round(dt * (power_total * Milli - q1), C_cpu) ]
        b  == [ a EXCEPT !.T_soc = @ + Round(dt * (0 - q1 - q2 - q4), C_board) ]
        c  == [ b EXCEPT !.T_pkg = @ + Round(dt * (q4 - Round(b.T_pkg - T_ambient, R5)), C_pkg) ]
    IN  [ c EXCEPT !.T_board = @ + Round(dt * (q2 - Round(c.T_board - T_ambient, R3)), C_amb) ]

\* The body both loops share: q1, q2, q4 are read first, then the four
\* temperatures are assigned one after the other, each statement reading the
\* variables as they stand when it runs.
ThermalUpdate(T, power_total) ==
    LET q1 == Round(T.T_cpu - T.T_soc, R1)
        q2 == Round(T.T_soc - T.T_board, R2)
        q4 == Round(T.T_soc - T.T_pkg, R4)
        a  == [ T EXCEPT !.T_cpu = @ + Round(dt * (power_total * Milli - q1), C_cpu) ]
        b  == [ a EXCEPT !.T_soc = @ + Round(dt * (q1 - q2 - q4), C_board) ]
        c  == [ b EXCEPT !.T_pkg = @ + Round(dt * (q4 - Round(b.T_pkg - T_ambient, R5)), C_pkg) ]
    IN  [ c EXCEPT !.T_board = @ + Round(dt * (q2 - Round(c.T_board - T_ambient, R3)), C_amb) ]

\* ------------------------------------------------------------ DVFS rule

\* Variants of the rule with one slip each.
\* The limit itself counted as over the limit.
DvfsRuleAtLimit(T_cpu, voltage_index) ==
    IF T_cpu >= dvfs_temp_limit /\ voltage_index < Len(voltages) - 1
    THEN voltage_index + 1
    ELSE IF T_cpu < dvfs_hysteresis /\ voltage_index > 0
         THEN voltage_index - 1
         ELSE voltage_index

\* The nominal operating point never returned to.
DvfsRuleNeverNominal(T_cpu, voltage_index) ==
    IF T_cpu > dvfs_temp_limit /\ voltage_index < Len(voltages) - 1
    THEN voltage_index + 1
    ELSE IF T_cpu < dvfs_hysteresis /\ voltage_index > 1
         THEN voltage_index - 1
         ELSE voltage_index

\* The upper guard forgotten.
DvfsRuleNoUpperGuard(T_cpu, voltage_index) ==
    IF T_cpu > dvfs_temp_limit
    THEN voltage_index + 1
    ELSE IF T_cpu < dvfs_hysteresis /\ voltage_index > 0
         THEN voltage_index - 1
         ELSE voltage_index

\* Two operating points per step when over the limit.
DvfsRuleJump(T_cpu, voltage_index) ==
    IF T_cpu > dvfs_temp_limit /\ voltage_index < Len(voltages) - 2
    THEN voltage_index + 2
    ELSE IF T_cpu < dvfs_hysteresis /\ voltage_index > 0
         THEN voltage_index - 1
         ELSE voltage_index

\* A single threshold: stepping up as soon as the core is under the limit.
DvfsRuleNoBand(T_cpu, voltage_index) ==
    IF T_cpu > dvfs_temp_limit /\ voltage_index < Len(voltages) - 1
    THEN voltage_index + 1
    ELSE IF T_cpu < dvfs_temp_limit /\ voltage_index > 0
         THEN voltage_index - 1
         ELSE voltage_index

\* The upper guard off by one: the last operating point is never selected.
DvfsRuleShortCatalog(T_cpu, voltage_index) ==
    IF T_cpu > dvfs_temp_limit /\ voltage_index < Len(voltages) - 2
    THEN voltage_index + 1
    ELSE IF T_cpu < dvfs_hysteresis /\ voltage_index > 0
         THEN voltage_index - 1
         ELSE voltage_index

\* The hysteresis rule of simulate_dvfs_strict: the index that results from
\* observing T_cpu at index voltage_index.
DvfsRule(T_cpu, voltage_index) ==
    IF T_cpu > dvfs_temp_limit /\ voltage_index < Len(voltages) - 1
    THEN voltage_index + 1
    ELSE IF T_cpu < dvfs_hysteresis /\ voltage_index > 0
         THEN voltage_index - 1
         ELSE voltage_index

\* ------------------------------------------------------- loop iterations

\* Locals of simulate_free_running at entry.
FreeLocals ==
    [ T_cpu |-> T_ambient, T_soc |-> T_ambient, T_board |-> T_ambient,
      T_pkg |-> T_ambient, T_cpu_hist |-> << >>, i |-> 0 ]

\* Locals of simulate_dvfs_strict at entry.
DvfsEntryFrame ==
    [ T_cpu |-> T_ambient, T_soc |-> T_ambient, T_board |-> T_ambient,
      T_pkg |-> T_ambient, T_cpu_hist |-> << >>, freq_hist |-> << >>,
      volt_hist |-> << >>, voltage_index |-> 0, i |-> 0 ]

\* voltage_index kept from the previous activation instead of being set to 0.
DvfsLocalsStale == [ DvfsEntryFrame EXCEPT !.voltage_index = dvfs.voltage_index ]

\* The node temperatures taken over from the other run instead of being the
\* function's own, set to ambient.
DvfsLocalsShared ==
    [ DvfsEntryFrame EXCEPT !.T_cpu = free.T_cpu, !.T_soc = free.T_soc,
                            !.T_board = free.T_board, !.T_pkg = free.T_pkg ]

DvfsLocals == DvfsEntryFrame

\* One iteration of the loop of simulate_free_running on locals s: the new
\* locals, and the exception raised, if any ("" for none).
FreeIteration(s) ==
    IF ~InRange(cdyn_trace, s.i)
    THEN [ locals |-> s, exc |-> "IndexError" ]
    ELSE LET power_total == PowerFree(NpIndex(cdyn_trace, s.i))
             T == ThermalUpdate(Temps(s), power_total)
         IN  [ locals |-> [ T_cpu |-> T.T_cpu, T_soc |-> T.T_soc,
                            T_board |-> T.T_board, T_pkg |-> T.T_pkg,
                            T_cpu_hist |-> Append(s.T_cpu_hist, T.T_cpu),
                            i |-> s.i + 1 ],
               exc |-> "" ]

\* The rule evaluated at the end of the iteration, on the temperature the
\* iteration has just produced; power and the records use the index the
\* iteration started with.
DvfsIterationLate(s) ==
    IF ~InRange(voltages, s.voltage_index) \/ ~InRange(cdyn_trace, s.i)
    THEN [ locals |-> s, exc |-> "IndexError" ]
    ELSE LET volt == NpIndex(voltages, s.voltage_index)
             freq == Freq(volt)
             power_total == PowerDvfs(NpIndex(cdyn_trace, s.i), volt)
             T == ThermalUpdate(Temps(s), power_total)
         IN  [ locals |-> [ T_cpu |-> T.T_cpu, T_soc |-> T.T_soc,
                            T_board |-> T.T_board, T_pkg |-> T.T_pkg,
                            T_cpu_hist |-> Append(s.T_cpu_hist, T.T_cpu),
                            freq_hist |-> Append(s.freq_hist, freq),
                            volt_hist |-> Append(s.volt_hist, volt),
                            voltage_index |-> DvfsRule(T.T_cpu, s.voltage_index),
                            i |-> s.i + 1 ],
               exc |-> "" ]

\* The operating point recorded only in iterations that changed it.
DvfsIterationSparse(s) ==
    LET voltage_index == DvfsRule(s.T_cpu, s.voltage_index)
        t == [ s EXCEPT !.voltage_index = voltage_index ]
    IN  IF ~InRange(voltages, voltage_index) \/ ~InRange(cdyn_trace, s.i)
        THEN [ locals |-> t, exc |-> "IndexError" ]
        ELSE LET volt == NpIndex(voltages, voltage_index)
                 freq == Freq(volt)
                 power_total == PowerDvfs(NpIndex(cdyn_trace, s.i), volt)
                 T == ThermalUpdate(Temps(s), power_total)
                 changed == voltage_index # s.voltage_index
             IN  [ locals |-> [ T_cpu |-> T.T_cpu, T_soc |-> T.T_soc,
                                T_board |-> T.T_board, T_pkg |-> T.T_pkg,
                                T_cpu_hist |-> Append(s.T_cpu_hist, T.T_cpu),
                                freq_hist |-> IF changed THEN Append(s.freq_hist, freq)
                                              ELSE s.freq_hist,
                                volt_hist |-> IF changed THEN Append(s.volt_hist, volt)
                                              ELSE s.volt_hist,
                                voltage_index |-> voltage_index,
                                i |-> s.i + 1 ],
                   exc |-> "" ]

\* One iteration of the loop of simulate_dvfs_strict on locals s.
DvfsIteration(s) ==
    LET voltage_index == DvfsRule(s.T_cpu, s.voltage_index)
        t == [ s EXCEPT !.voltage_index = voltage_index ]
    IN  IF ~InRange(voltages, voltage_index) \/ ~InRange(cdyn_trace, s.i)
        THEN [ locals |-> t, exc |-> "IndexError" ]
        ELSE LET volt == NpIndex(voltages, voltage_index)
                 freq == Freq(volt)
                 power_total == PowerDvfs(NpIndex(cdyn_trace, s.i), volt)
                 T == ThermalUpdate(Temps(s), power_total)
             IN  [ locals |-> [ T_cpu |-> T.T_cpu, T_soc |-> T.T_soc,
                                T_board |-> T.T_board, T_pkg |-> T.T_pkg,
                                T_cpu_hist |-> Append(s.T_cpu_hist, T.T_cpu),
                                freq_hist |-> Append(s.freq_hist, freq),
                                volt_hist |-> Append(s.volt_hist, volt),
                                voltage_index |-> voltage_index,
                                i |-> s.i + 1 ],
                   exc |-> "" ]

\* ---------------------------------------------------------------- actions

results == << T_free, T_dvfs, freq_dvfs, volt_dvfs >>

\* T_free = simulate_free_running(): entry.
FreeCall ==
    /\ pc.free = "idle"
    /\ free' = FreeLocals
    /\ pc' = [ pc EXCEPT !.free = "loop" ]
    /\ UNCHANGED << globals, dvfs, results, runs, first >>

\* for i in range(len(time)): one iteration.
FreeStep ==
    /\ pc.free = "loop"
    /\ free.i < NumSteps
    /\ LET r == FreeIteration(free)
       IN  /\ free' = r.locals
           /\ pc' = IF r.exc = "" THEN pc ELSE [ pc EXCEPT !.free = r.exc ]
    /\ UNCHANGED << globals, dvfs, results, runs, first >>

\* return np.array(T_cpu_hist), bound to T_free.
FreeReturn ==
    /\ pc.free = "loop"
    /\ free.i = NumSteps
    /\ T_free' = free.T_cpu_hist
    /\ pc' = [ pc EXCEPT !.free = "returned" ]
    /\ UNCHANGED << globals, free, dvfs, T_dvfs, freq_dvfs, volt_dvfs, runs, first >>

\* T_dvfs, freq_dvfs, volt_dvfs = simulate_dvfs_strict(): entry.
DvfsCall ==
    /\ pc.dvfs = "idle"
    /\ dvfs' = DvfsLocals
    /\ pc' = [ pc EXCEPT !.dvfs = "loop" ]
    /\ UNCHANGED << globals, free, results, runs, first >>

DvfsStep ==
    /\ pc.dvfs = "loop"
    /\ dvfs.i < NumSteps
    /\ LET r == DvfsIteration(dvfs)
       IN  /\ dvfs' = r.locals
           /\ pc' = IF r.exc = "" THEN pc ELSE [ pc EXCEPT !.dvfs = r.exc ]
    /\ UNCHANGED << globals, free, results, runs, first >>

DvfsReturn ==
    /\ pc.dvfs = "loop"
    /\ dvfs.i = NumSteps
    /\ T_dvfs' = dvfs.T_cpu_hist
    /\ freq_dvfs' = dvfs.freq_hist
    /\ volt_dvfs' = dvfs.volt_hist
    /\ pc' = [ pc EXCEPT !.dvfs = "returned" ]
    /\ UNCHANGED << globals, free, dvfs, T_free, runs, first >>

\* The two calls made once more by the same process, the first results kept
\* for comparison.
Rerun ==
    /\ pc.free = "returned"
    /\ pc.dvfs = "returned"
    /\ runs = 1
    /\ runs' = 2
    /\ first' = results
    /\ pc' = [ free |-> "idle", dvfs |-> "idle" ]
    /\ UNCHANGED << globals, free, dvfs, results >>

\* --------------------------------------------------------- specifications

InitRest ==
    /\ pc = [ free |-> "idle", dvfs |-> "idle" ]
    /\ free = FreeLocals
    /\ dvfs = DvfsEntryFrame
    /\ T_free = << >>
    /\ T_dvfs = << >>
    /\ freq_dvfs = << >>
    /\ volt_dvfs = << >>
    /\ runs = 1
    /\ first = << >>

ConfigIs(c) ==
    /\ dvfs_temp_limit = c.dvfs_temp_limit
    /\ dvfs_hysteresis = c.dvfs_hysteresis
    /\ voltages = c.voltages

\* The module as written: the configuration of the source, a trace with one
\* sample per grid point, simulate_free_running and then simulate_dvfs_strict.
Init ==
    /\ ConfigIs(SourceConfig)
    /\ cdyn_trace \in Traces(MaxPhases, NumSteps)
    /\ InitRest

Next ==
    \/ FreeCall
    \/ FreeStep
    \/ FreeReturn
    \/ (pc.free = "returned" /\ DvfsCall)
    \/ DvfsStep
    \/ DvfsReturn

Spec == Init /\ [][Next]_vars

\* The same, with both functions run a second time.
InitTwice ==
    /\ ConfigIs(SourceConfig)
    /\ cdyn_trace \in Traces(MaxPhases - 1, NumSteps)
    /\ InitRest

NextTwice == Next \/ Rerun

SpecTwice == InitTwice /\ [][NextTwice]_vars

\* The module as written, over the traces of InitTwice (one phase fewer).
SpecFewerPhases == InitTwice /\ [][Next]_vars

\* The two runs once in the order of the module and then once more with their
\* steps interleaved in any order (either may start first, and either may
\* finish before the other starts).
NextInterleaved ==
    \/ (runs = 1 /\ Next)
    \/ Rerun
    \/ (runs = 2 /\ FreeCall)
    \/ (runs = 2 /\ FreeStep)
    \/ (runs = 2 /\ FreeReturn)
    \/ (runs = 2 /\ DvfsCall)
    \/ (runs = 2 /\ DvfsStep)
    \/ (runs = 2 /\ DvfsReturn)

SpecInterleaved == InitTwice /\ [][NextInterleaved]_vars

\* simulate_free_running on the source's constants with a constant workload
\* of 0.5 W/GHz, on a grid twice as long as the source's (20 s), so that the
\* core temperature after duration / dt steps and after twice as many can
\* be compared.
ScenarioSteps == 2 * (duration \div dt)

ScenarioSample == 500

InitScenario ==
    /\ ConfigIs(SourceConfig)
    /\ cdyn_trace = [ k \in 1..ScenarioSteps |-> ScenarioSample ]
    /\ InitRest

\* for i in range(len(time)): one iteration, on the scenario's grid.
ScenarioStep ==
    /\ pc.free = "loop"
    /\ free.i < ScenarioSteps
    /\ LET r == FreeIteration(free)
       IN  /\ free' = r.locals
           /\ pc' = IF r.exc = "" THEN pc ELSE [ pc EXCEPT !.free = r.exc ]
    /\ UNCHANGED << globals, dvfs, results, runs, first >>

\* return np.array(T_cpu_hist), on the scenario's grid.
ScenarioReturn ==
    /\ pc.free = "loop"
    /\ free.i = ScenarioSteps
    /\ T_free' = free.T_cpu_hist
    /\ pc' = [ pc EXCEPT !.free = "returned" ]
    /\ UNCHANGED << globals, free, dvfs, T_dvfs, freq_dvfs, volt_dvfs, runs, first >>

NextScenario ==
    \/ FreeCall
    \/ ScenarioStep
    \/ ScenarioReturn

SpecScenario == InitScenario /\ [][NextScenario]_vars

\* The rule of lines 65-68 on its own: the loop of simulate_dvfs_strict
\* stopped in front of the rule with any catalog index and any of these core
\* temperatures (ambient, every whole degree from 70 C to 95 C, and the
\* nearest representable values on either side of the two thresholds).
RuleTemps ==
    { T_ambient }
      \cup { c * Milli * Milli : c \in 70..95 }
      \cup { SourceConfig.dvfs_temp_limit + e : e \in { -1, 1 } }
      \cup { SourceConfig.dvfs_hysteresis + e : e \in { -1, 1 } }

InitRule ==
    /\ ConfigIs(SourceConfig)
    /\ cdyn_trace = Const(0, NumSteps)
    /\ pc = [ free |-> "idle", dvfs |-> "rule" ]
    /\ free = FreeLocals
    /\ \E T \in RuleTemps, k \in 0..(Len(SourceConfig.voltages) - 1) :
           dvfs = [ DvfsEntryFrame EXCEPT !.T_cpu = T, !.voltage_index = k ]
    /\ T_free = << >>
    /\ T_dvfs = << >>
    /\ freq_dvfs = << >>
    /\ volt_dvfs = << >>
    /\ runs = 1
    /\ first = << >>

\* Lines 65-68: the if / elif that assigns voltage_index.
EvalRule ==
    /\ pc.dvfs = "rule"
    /\ dvfs' = [ dvfs EXCEPT !.voltage_index = DvfsRule(dvfs.T_cpu, dvfs.voltage_index) ]
    /\ pc' = [ pc EXCEPT !.dvfs = "ruled" ]
    /\ UNCHANGED << globals, free, results, runs, first >>

SpecRule == InitRule /\ [][EvalRule]_vars

\* The module with other values assigned to the DVFS globals: the source's
\* own values, thresholds the wrong way round, an empty catalog and a catalog
\* that is not decreasing.  The trace has one sample per grid point.
Configs ==
    { [ dvfs_temp_limit |-> t[1], dvfs_hysteresis |-> t[2], voltages |-> v ] :
        t \in { << SourceConfig.dvfs_temp_limit, SourceConfig.dvfs_hysteresis >>,
                << SourceConfig.dvfs_hysteresis, SourceConfig.dvfs_temp_limit >> },
        v \in { SourceConfig.voltages, << >>, << 750, 650, 700 >> } }

InitAnyConfig ==
    /\ \E c \in Configs : ConfigIs(c)
    /\ cdyn_trace \in Traces(MaxPhases - 1, NumSteps)
    /\ InitRest

SpecAnyConfig == InitAnyConfig /\ [][Next]_vars

\* The module with the source's configuration and a trace that need not have
\* one sample per grid point: one short, exact, one long.
InitAnyTrace ==
    /\ ConfigIs(SourceConfig)
    /\ \E n \in { NumSteps - 1, NumSteps, NumSteps + 1 } :
           cdyn_trace \in Traces(MaxPhases - 1, n)
    /\ InitRest

SpecAnyTrace == InitAnyTrace /\ [][Next]_vars

\* ------------------------------------------------- reading the histories

\* Number of iterations simulate_dvfs_strict has completed.
DvfsDone == Len(dvfs.volt_hist)

\* The core temperature the rule reads in iteration p (p = 1 is the first):
\* ambient at first, afterwards the value the previous iteration appended.
ObservedAt(p) == IF p = 1 THEN T_ambient ELSE dvfs.T_cpu_hist[p - 1]

\* The catalog index of a recorded voltage (the catalog has no duplicates).
IndexOf(volt) == CHOOSE k \in 0..(Len(voltages) - 1) : voltages[k + 1] = volt

\* voltage_index after iteration p; 0 before the first.
IndexAt(p) == IF p = 0 THEN 0 ELSE IndexOf(dvfs.volt_hist[p])

\* ------------------------------------------------------------------ claims

\* C1: voltage_index stays within [0, len(voltages)-1] after every iteration
\* of simulate_dvfs_strict, so voltages[voltage_index] never raises.
C1_IndexInBounds ==
    /\ dvfs.voltage_index \in 0..(Len(voltages) - 1)
    /\ pc.dvfs # "IndexError"

\* The rule was evaluated over the limit at the last index and held it there,
\* after an earlier run at the first index.
C1_Witness ==
    /\ DvfsDone >= 2
    /\ IndexAt(1) = 0
    /\ ObservedAt(DvfsDone) > dvfs_temp_limit
    /\ IndexAt(DvfsDone - 1) = Len(voltages) - 1
    /\ dvfs.voltage_index = Len(voltages) - 1

\* C2: between consecutive iterations of simulate_dvfs_strict voltage_index
\* changes by at most one.
C2_RateLimited ==
    [][ pc.dvfs = "loop" =>
          /\ dvfs'.voltage_index - dvfs.voltage_index <= 1
          /\ dvfs.voltage_index - dvfs'.voltage_index <= 1 ]_vars

\* The index has moved in both directions.
C2_Witness ==
    /\ \E p \in 1..DvfsDone : IndexAt(p) = IndexAt(p - 1) + 1
    /\ \E p \in 1..DvfsDone : IndexAt(p) = IndexAt(p - 1) - 1

\* C3: hysteresis.  If the index went up in iteration j on an observation
\* above dvfs_temp_limit and no iteration from j+1 to p observed a temperature
\* below dvfs_hysteresis, the index does not go down in iteration p; and an
\* observation within [dvfs_hysteresis, dvfs_temp_limit] leaves it unchanged.
C3_Hysteresis ==
    \A p \in 1..DvfsDone :
        /\ IndexAt(p) < IndexAt(p - 1) =>
             ~ \E j \in 1..(p - 1) :
                   /\ IndexAt(j) > IndexAt(j - 1)
                   /\ ObservedAt(j) > dvfs_temp_limit
                   /\ \A m \in (j + 1)..p : ObservedAt(m) >= dvfs_hysteresis
        /\ (ObservedAt(p) >= dvfs_hysteresis /\ ObservedAt(p) <= dvfs_temp_limit)
             => IndexAt(p) = IndexAt(p - 1)

\* The index went up, was then held through an observation inside the band,
\* and came down only later.
C3_Witness ==
    \E j \in 1..DvfsDone : \E m \in (j + 1)..DvfsDone : \E p \in (m + 1)..DvfsDone :
        /\ IndexAt(j) > IndexAt(j - 1)
        /\ ObservedAt(m) >= dvfs_hysteresis
        /\ ObservedAt(m) <= dvfs_temp_limit
        /\ IndexAt(m) = IndexAt(m - 1)
        /\ IndexAt(m) > 0
        /\ IndexAt(p) < IndexAt(p - 1)

\* C4 as stated: whenever an iteration leaves the core above the limit, the
\* next iteration's index is strictly greater.
C4_StrictlyGreater ==
    \A p \in 2..DvfsDone :
        ObservedAt(p) > dvfs_temp_limit => IndexAt(p) > IndexAt(p - 1)

\* C4, amended: whenever an iteration leaves the core above the limit, the
\* next iteration's index is greater by exactly one, unless the index is
\* already the last of the catalog, where it stays.
C4_GreaterOrLast ==
    \A p \in 2..DvfsDone :
        ObservedAt(p) > dvfs_temp_limit =>
            IF IndexAt(p - 1) = Len(voltages) - 1
            THEN IndexAt(p) = IndexAt(p - 1)
            ELSE IndexAt(p) = IndexAt(p - 1) + 1

\* An over-limit observation raised the index on the way to the last entry,
\* and a later one found it there.
C4_Witness ==
    /\ \E p \in 2..DvfsDone :
          /\ ObservedAt(p) > dvfs_temp_limit
          /\ IndexAt(p - 1) = Len(voltages) - 2
          /\ IndexAt(p) = Len(voltages) - 1
    /\ \E p \in 2..DvfsDone :
          /\ ObservedAt(p) > dvfs_temp_limit
          /\ IndexAt(p - 1) = Len(voltages) - 1
          /\ IndexAt(p) = Len(voltages) - 1

\* The four temperatures after one explicit Euler step in which every
\* derivative is taken from the snapshot T.
EulerFromSnapshot(T, power_total) ==
    [ T_cpu   |-> T.T_cpu + Round(dt * (power_total * Milli
                                          - Round(T.T_cpu - T.T_soc, R1)), C_cpu),
      T_soc   |-> T.T_soc + Round(dt * (Round(T.T_cpu - T.T_soc, R1)
                                          - Round(T.T_soc - T.T_board, R2)
                                          - Round(T.T_soc - T.T_pkg, R4)), C_board),
      T_pkg   |-> T.T_pkg + Round(dt * (Round(T.T_soc - T.T_pkg, R4)
                                          - Round(T.T_pkg - T_ambient, R5)), C_pkg),
      T_board |-> T.T_board + Round(dt * (Round(T.T_soc - T.T_board, R2)
                                          - Round(T.T_board - T_ambient, R3)), C_amb) ]

\* C5: in both loops an iteration's four new temperatures are those obtained
\* by taking all four derivatives from the temperatures held when the
\* iteration starts and applying them together.
C5_SnapshotUpdate ==
    [][ /\ free'.i = free.i + 1 =>
             Temps(free') = EulerFromSnapshot(Temps(free),
                                PowerFree(cdyn_trace[free.i + 1]))
        /\ dvfs'.i = dvfs.i + 1 =>
             Temps(dvfs') = EulerFromSnapshot(Temps(dvfs),
                                PowerDvfs(cdyn_trace[dvfs.i + 1],
                                          voltages[dvfs'.voltage_index + 1])) ]_vars

\* Both loops have stepped from states in which the nodes differ, so that
\* the order of the four assignments could matter.
C5_Witness ==
    /\ free.i >= 3
    /\ free.T_cpu # free.T_soc /\ free.T_soc # free.T_pkg /\ free.T_pkg # T_ambient
    /\ dvfs.i >= 3
    /\ dvfs.T_cpu # dvfs.T_soc /\ dvfs.T_soc # dvfs.T_pkg /\ dvfs.T_pkg # T_ambient

\* C6: every iteration of simulate_dvfs_strict applies the rule once, to the
\* core temperature the previous iteration produced (ambient in the first),
\* and the voltage and frequency of the resulting index are the ones recorded
\* for the iteration and used for its power.
C6_RuleThenPower ==
    [][ dvfs'.i = dvfs.i + 1 =>
          LET observed == IF dvfs.i = 0 THEN T_ambient
                          ELSE dvfs.T_cpu_hist[dvfs.i]
              index    == DvfsRule(observed, dvfs.voltage_index)
              volt     == voltages[index + 1]
              power    == PowerDvfs(cdyn_trace[dvfs.i + 1], volt)
          IN  /\ dvfs.T_cpu = observed
              /\ dvfs'.voltage_index = index
              /\ dvfs'.volt_hist = Append(dvfs.volt_hist, volt)
              /\ dvfs'.freq_hist = Append(dvfs.freq_hist, Freq(volt))
              /\ dvfs'.T_cpu = dvfs.T_cpu + Round(dt * (power * Milli
                                   - Round(dvfs.T_cpu - dvfs.T_soc, R1)), C_cpu)
              /\ dvfs'.T_cpu_hist = Append(dvfs.T_cpu_hist, dvfs'.T_cpu) ]_vars

\* An iteration changed the index on an over-limit observation and recorded
\* the new operating point in that same iteration.
C6_Witness ==
    \E p \in 2..DvfsDone :
        /\ ObservedAt(p) > dvfs_temp_limit
        /\ dvfs.volt_hist[p] # dvfs.volt_hist[p - 1]
        /\ dvfs.freq_hist[p] = Freq(dvfs.volt_hist[p])

\* C7: as long as the controlled run has stayed at index 0 (nominal voltage)
\* in iterations 1..k, its recorded core temperatures 1..k are those of the
\* free-running run.
C7_SameWhileNominal ==
    \A k \in 1..DvfsDone :
        (k <= Len(T_free) /\ \A j \in 1..k : dvfs.volt_hist[j] = voltages[1])
            => dvfs.T_cpu_hist[k] = T_free[k]

\* The controlled run agreed with the free-running run over a nominal prefix
\* during which the core heated, and parted from it afterwards.
C7_Witness ==
    /\ DvfsDone = Len(T_free)
    /\ DvfsDone >= 3
    /\ dvfs.volt_hist[1] = voltages[1]
    /\ dvfs.volt_hist[2] = voltages[1]
    /\ dvfs.T_cpu_hist[2] = T_free[2]
    /\ T_free[2] > T_free[1]
    /\ dvfs.T_cpu_hist[DvfsDone] # T_free[DvfsDone]

\* C8: a second run of either function under the same configuration and
\* workload trace reproduces the first run's trajectories entry by entry.
C8_Deterministic ==
    runs = 2 =>
        /\ pc.free = "loop" =>
             \A k \in 1..Len(free.T_cpu_hist) : free.T_cpu_hist[k] = first[1][k]
        /\ pc.free = "returned" => T_free = first[1]
        /\ pc.dvfs = "loop" =>
             \A k \in 1..DvfsDone :
                 /\ dvfs.T_cpu_hist[k] = first[2][k]
                 /\ dvfs.freq_hist[k] = first[3][k]
                 /\ dvfs.volt_hist[k] = first[4][k]
        /\ pc.dvfs = "returned" =>
             << T_dvfs, freq_dvfs, volt_dvfs >> = << first[2], first[3], first[4] >>

\* Both functions have returned a second time, from runs in which the
\* controller left the nominal operating point.
C8_Witness ==
    /\ runs = 2
    /\ pc.free = "returned"
    /\ pc.dvfs = "returned"
    /\ Len(T_free) = NumSteps
    /\ volt_dvfs[NumSteps] # voltages[1]

\* What section 7 of the specification calls a valid static configuration;
\* the step, the duration, the capacitances and the resistances are fixed and
\* positive in the source, the thresholds and the catalog are state.
ConfigValid ==
    /\ dt > 0 /\ NumSteps > 0
    /\ C_cpu > 0 /\ C_board > 0 /\ C_amb > 0 /\ C_pkg > 0
    /\ R1 > 0 /\ R2 > 0 /\ R3 > 0 /\ R4 > 0 /\ R5 > 0
    /\ Len(voltages) > 0
    /\ \A k \in 1..(Len(voltages) - 1) : voltages[k] > voltages[k + 1]
    /\ dvfs_hysteresis < dvfs_temp_limit

\* Nothing has been stepped: every node of both runs is at ambient, the
\* controller index is 0 and nothing has been recorded.
NothingStepped ==
    /\ free.i = 0 /\ free.T_cpu_hist = << >>
    /\ \A f \in DOMAIN Temps(free) : Temps(free)[f] = T_ambient
    /\ dvfs.i = 0 /\ dvfs.T_cpu_hist = << >>
    /\ \A f \in DOMAIN Temps(dvfs) : Temps(dvfs)[f] = T_ambient
    /\ dvfs.voltage_index = 0

\* C9: under an invalid static configuration no node temperature and no
\* controller index is ever updated (the run is refused before its first
\* step).
C9_InvalidConfigNeverSteps == ~ConfigValid => NothingStepped

\* C10: when the trace does not have one sample per grid point, no step is
\* run; and no run fails after it has started stepping.
C10_MismatchNeverSteps ==
    /\ Len(cdyn_trace) # NumSteps => NothingStepped
    /\ \A f \in DOMAIN pc :
           pc[f] \notin { "idle", "loop", "returned" } => NothingStepped

\* The power (micro-watts) an iteration injected at the core node, read back
\* from the step it took from locals s to locals t: with dt / C_cpu = 1 the
\* core update is T_cpu' = T_cpu + power_total - q1.
PowerUsed(s, t) ==
    ((t.T_cpu - s.T_cpu) * C_cpu) \div dt + Round(s.T_cpu - s.T_soc, R1)

\* sample x frequency x (voltage / nominal voltage)^2 + leakage (mW), the
\* frequency being f_nom x voltage / nominal voltage.
ClaimedPower(sample, volt) ==
    LET ratio == Round(volt * Milli, v_nom)
        freq  == Mul(f_nom, ratio)
    IN  Mul(Mul(sample, freq), Mul(ratio, ratio)) + pleak_nom

\* C11: in both modes the power a step uses is sample x frequency x
\* (voltage / nominal voltage)^2 plus pleak_nom, at the nominal operating
\* point in the free-running mode and at the selected one in the controlled
\* mode, and is neither below pleak_nom nor negative.
C11_PowerFloor ==
    [][ /\ free'.i = free.i + 1 =>
             LET P == ClaimedPower(cdyn_trace[free.i + 1], v_nom)
             IN  /\ PowerUsed(free, free') = P * Milli
                 /\ P >= pleak_nom
                 /\ P >= 0
        /\ dvfs'.i = dvfs.i + 1 =>
             LET P == ClaimedPower(cdyn_trace[dvfs.i + 1],
                                   voltages[dvfs'.voltage_index + 1])
             IN  /\ PowerUsed(dvfs, dvfs') = P * Milli
                 /\ P >= pleak_nom
                 /\ P >= 0 ]_vars

\* The controlled run has stepped with a positive sample at a reduced
\* operating point and with a zero sample, after the free-running run.
C11_Witness ==
    /\ free.i >= 1
    /\ \E p \in 1..DvfsDone :
          dvfs.volt_hist[p] # voltages[1] /\ cdyn_trace[p] > 0
    /\ \E p \in 1..DvfsDone : cdyn_trace[p] = 0

\* C12: every (voltage, frequency) pair simulate_dvfs_strict records is an
\* operating point of the catalog: the voltage is voltages[voltage_index],
\* the frequency is f_nom x voltage / v_nom, and the voltages of consecutive
\* iterations are equal or adjacent catalog entries.
C12_CatalogEntries ==
    /\ Len(dvfs.freq_hist) = Len(dvfs.volt_hist)
    /\ \A p \in 1..DvfsDone :
          /\ \E k \in 1..Len(voltages) : dvfs.volt_hist[p] = voltages[k]
          /\ dvfs.freq_hist[p] =
                 Round(f_nom * Round(dvfs.volt_hist[p] * Milli, v_nom), Milli)
    /\ DvfsDone >= 1 => dvfs.volt_hist[DvfsDone] = voltages[dvfs.voltage_index + 1]
    /\ \A p \in 2..DvfsDone :
          \E k \in 1..Len(voltages) :
              /\ dvfs.volt_hist[p - 1] = voltages[k]
              /\ \/ dvfs.volt_hist[p] = voltages[k]
                 \/ k > 1 /\ dvfs.volt_hist[p] = voltages[k - 1]
                 \/ k < Len(voltages) /\ dvfs.volt_hist[p] = voltages[k + 1]

\* The records hold an unchanged pair, a step to the next lower entry, the
\* last entry of the catalog with its reduced frequency, and a step back.
C12_Witness ==
    /\ \E p \in 2..DvfsDone : dvfs.volt_hist[p] = dvfs.volt_hist[p - 1]
    /\ \E p \in 2..DvfsDone : dvfs.volt_hist[p] < dvfs.volt_hist[p - 1]
    /\ \E p \in 2..DvfsDone : dvfs.volt_hist[p] > dvfs.volt_hist[p - 1]
    /\ \E p \in 1..DvfsDone :
          /\ dvfs.volt_hist[p] = voltages[Len(voltages)]
          /\ dvfs.freq_hist[p] < f_nom

\* C13: with one sample per grid point each run makes exactly len(time)
\* iterations and then returns: it never stops or fails before returning,
\* every iteration appends one entry (the temperature it produced) to each
\* history, and what is returned has len(time) entries, the three histories
\* of the controlled mode being of the same length.
C13_FullGrid ==
    /\ pc.free \in { "idle", "loop", "returned" }
    /\ pc.dvfs \in { "idle", "loop", "returned" }
    /\ pc.dvfs # "returned" => ENABLED Next
    /\ free.i <= NumSteps
    /\ Len(free.T_cpu_hist) = free.i
    /\ free.i >= 1 => free.T_cpu_hist[free.i] = free.T_cpu
    /\ dvfs.i <= NumSteps
    /\ Len(dvfs.T_cpu_hist) = dvfs.i
    /\ Len(dvfs.freq_hist) = dvfs.i
    /\ Len(dvfs.volt_hist) = dvfs.i
    /\ dvfs.i >= 1 => dvfs.T_cpu_hist[dvfs.i] = dvfs.T_cpu
    /\ pc.free = "returned" =>
          /\ free.i = NumSteps
          /\ T_free = free.T_cpu_hist
          /\ Len(T_free) = NumSteps
    /\ pc.dvfs = "returned" =>
          /\ dvfs.i = NumSteps
          /\ << T_dvfs, freq_dvfs, volt_dvfs >> =
                 << dvfs.T_cpu_hist, dvfs.freq_hist, dvfs.volt_hist >>
          /\ Len(T_dvfs) = NumSteps
          /\ Len(freq_dvfs) = NumSteps
          /\ Len(volt_dvfs) = NumSteps

\* Both functions have returned full-length trajectories, the controlled one
\* after changing its operating point on the way.
C13_Witness ==
    /\ pc.free = "returned"
    /\ pc.dvfs = "returned"
    /\ Len(T_free) = NumSteps
    /\ Len(volt_dvfs) = NumSteps
    /\ \E p \in 2..NumSteps : volt_dvfs[p] # volt_dvfs[p - 1]

\* What the interleaved second run has produced so far is what the first run,
\* made in the module's order, produced.
AgreesWithFirst ==
    runs = 2 =>
        /\ pc.free \in { "loop", "returned" } =>
             \A k \in 1..Len(free.T_cpu_hist) : free.T_cpu_hist[k] = first[1][k]
        /\ pc.free = "returned" => T_free = first[1]
        /\ pc.dvfs \in { "loop", "returned" } =>
             \A k \in 1..DvfsDone :
                 /\ dvfs.T_cpu_hist[k] = first[2][k]
                 /\ dvfs.freq_hist[k] = first[3][k]
                 /\ dvfs.volt_hist[k] = first[4][k]
        /\ pc.dvfs = "returned" =>
             /\ T_dvfs = first[2]
             /\ freq_dvfs = first[3]
             /\ volt_dvfs = first[4]

\* C14: the two runs share no mutable data.  No step of either writes the
\* configuration, the catalog or the trace; a step of one run leaves the
\* other run's locals alone; each run starts from its own node temperatures
\* at ambient (and index 0); and the trajectories of a run whose steps are
\* interleaved with the other's in any order are those of the run made in
\* the module's order.
C14_Independent ==
    [][ /\ globals' = globals
        /\ free' # free => dvfs' = dvfs
        /\ dvfs' # dvfs => free' = free
        /\ (pc.free = "idle" /\ pc'.free = "loop") =>
              \A f \in DOMAIN Temps(free') : Temps(free')[f] = T_ambient
        /\ (pc.dvfs = "idle" /\ pc'.dvfs = "loop") =>
              /\ \A f \in DOMAIN Temps(dvfs') : Temps(dvfs')[f] = T_ambient
              /\ dvfs'.voltage_index = 0
        /\ AgreesWithFirst' ]_vars

\* In the second run both loops are under way, the controlled one ahead of
\* the free-running one and away from the nominal operating point.
C14_Witness ==
    /\ runs = 2
    /\ pc.free = "loop"
    /\ pc.dvfs = "loop"
    /\ free.i >= 2
    /\ dvfs.i > free.i
    /\ dvfs.voltage_index > 0

\* Another iteration at the scenario's power would leave all four node
\* temperatures of s as they are.
Settled(s) == ThermalUpdate(Temps(s), PowerFree(ScenarioSample)) = Temps(s)

\* C15: in the free-running scenario (source constants, constant sample
\* 0.5 W/GHz, nominal operating point) the core temperature after
\* duration / dt = 1000 steps is above ambient and, equilibrium not having
\* been reached, strictly below the core temperature after 2000 steps.
C15_Scenario ==
    /\ free.i >= duration \div dt =>
          free.T_cpu_hist[duration \div dt] > T_ambient
    /\ (free.i = ScenarioSteps /\ ~Settled(free)) =>
          free.T_cpu_hist[duration \div dt] < free.T_cpu_hist[ScenarioSteps]

\* The scenario has run its 2000 steps, has returned, and is still short of
\* equilibrium.
C15_Witness ==
    /\ pc.free = "returned"
    /\ Len(T_free) = ScenarioSteps
    /\ ~Settled(free)
    /\ T_free[duration \div dt] > T_ambient

\* C16: one evaluation of the rule, at any index k in 0..N-1 and any core
\* temperature T, gives k + 1 if T is over the limit and k < N-1, else k - 1
\* if T is under the hysteresis threshold and k > 0, else k; so the index
\* stays within the band (thresholds included), over the limit at N-1 and
\* under the hysteresis threshold at 0.
C16_ThreeCases ==
    [][ (pc.dvfs = "rule" /\ pc'.dvfs = "ruled") =>
          LET T    == dvfs.T_cpu
              k    == dvfs.voltage_index
              N    == Len(voltages)
              up   == T > dvfs_temp_limit /\ k < N - 1
              down == T < dvfs_hysteresis /\ k > 0
          IN  /\ up => dvfs'.voltage_index = k + 1
              /\ (~up /\ down) => dvfs'.voltage_index = k - 1
              /\ (~up /\ ~down) => dvfs'.voltage_index = k
              /\ (dvfs_hysteresis <= T /\ T <= dvfs_temp_limit) =>
                    dvfs'.voltage_index = k
              /\ (T > dvfs_temp_limit /\ k = N - 1) => dvfs'.voltage_index = k
              /\ (T < dvfs_hysteresis /\ k = 0) => dvfs'.voltage_index = k
              /\ dvfs'.T_cpu = T ]_vars

\* The rule has been evaluated exactly at the limit at the lowest operating
\* point (which only an unchanged index gives).
C16_Witness ==
    /\ pc.dvfs = "ruled"
    /\ dvfs.T_cpu = dvfs_temp_limit
    /\ dvfs.voltage_index = Len(voltages) - 1

\* The index with which iteration p starts: 0 at entry, afterwards the index
\* the previous iteration used.
IndexBefore(p) == IF p = 1 THEN 0 ELSE IndexAt(p - 1)

\* Iterations a..b all observe a core temperature over the limit / under
\* the hysteresis threshold.
HotStreak(a, b) == \A p \in a..b : ObservedAt(p) > dvfs_temp_limit

ColdStreak(a, b) == \A p \in a..b : ObservedAt(p) < dvfs_hysteresis

Min(x, y) == IF x <= y THEN x ELSE y

Max(x, y) == IF x >= y THEN x ELSE y

\* C17: after k = b - a + 1 consecutive iterations a..b that observe the core
\* over the limit, starting with index j, the index is min(j + k, N - 1);
\* after k consecutive iterations that observe it under the hysteresis
\* threshold, the index is max(j - k, 0).  Stated for the streaks that end
\* at the latest iteration; a streak that ends earlier is one of these in
\* the state in which that iteration was the latest.
C17_BoundedResponse ==
    \A a \in 1..DvfsDone :
        /\ HotStreak(a, DvfsDone) =>
              IndexAt(DvfsDone) =
                  Min(IndexBefore(a) + (DvfsDone - a + 1), Len(voltages) - 1)
        /\ ColdStreak(a, DvfsDone) =>
              IndexAt(DvfsDone) = Max(IndexBefore(a) - (DvfsDone - a + 1), 0)

\* The controlled run has had a streak of over-limit observations that
\* raised the index and, later, a streak of observations under the
\* hysteresis threshold that began away from the nominal point and went on
\* after the nominal point was reached.
C17_Witness ==
    /\ pc.dvfs = "loop"
    /\ \E a \in 1..DvfsDone : \E b \in a..DvfsDone :
           /\ HotStreak(a, b)
           /\ IndexAt(b) = IndexBefore(a) + (b - a + 1)
           /\ \E c \in (b + 1)..DvfsDone :
                  /\ ColdStreak(c, DvfsDone)
                  /\ IndexBefore(c) > 0
                  /\ DvfsDone - c + 1 > IndexBefore(c)
                  /\ IndexAt(DvfsDone) = 0
\* C18: with the source's step size, capacitances and resistances and a
\* trace without negative samples, the four node temperatures of either run
\* are never below T_ambient (they start there), and the first iteration of
\* the controlled run, which observes ambient at index 0, uses index 0.
C18_NeverBelowAmbient ==
    /\ \A f \in DOMAIN Temps(free) : Temps(free)[f] >= T_ambient
    /\ \A f \in DOMAIN Temps(dvfs) : Temps(dvfs)[f] >= T_ambient
    /\ \A k \in 1..Len(free.T_cpu_hist) : free.T_cpu_hist[k] >= T_ambient
    /\ \A k \in 1..DvfsDone : dvfs.T_cpu_hist[k] >= T_ambient
    /\ pc.free = "idle" =>
          \A f \in DOMAIN Temps(free) : Temps(free)[f] = T_ambient
    /\ (pc.dvfs = "loop" /\ dvfs.i = 0) =>
          \A f \in DOMAIN Temps(dvfs) : Temps(dvfs)[f] = T_ambient
    /\ \A k \in 1..Len(cdyn_trace) : cdyn_trace[k] >= 0
    /\ DvfsDone >= 1 => IndexAt(1) = 0

\* Both runs have stepped, the free-running one to its end; the controlled
\* core has been heated and is cooling again, and heat has reached the SoC
\* and package nodes.
C18_Witness ==
    /\ pc.free = "returned"
    /\ pc.dvfs = "loop"
    /\ DvfsDone >= 2
    /\ IndexAt(1) = 0
    /\ dvfs.T_cpu < dvfs.T_cpu_hist[DvfsDone - 1]
    /\ dvfs.T_cpu > T_ambient
    /\ dvfs.T_soc > T_ambient
    /\ dvfs.T_pkg > T_ambient
    /\ free.T_pkg > T_ambient

====
